---- MODULE Spec2Model ----
(***************************************************************************)
(* A state-machine model of the alucard_hotplug CPU hotplug controller     *)
(* (arch/arm/mach-msm/alucard_hotplug.c): the run-queue sampler, the       *)
(* per-cpu bookkeeping, the periodic decision work hotplug_work_fn, the    *)
(* two executor works and the sysfs store handlers.                        *)
(*                                                                         *)
(* Variables carry the names of the C objects they model.  The decision    *)
(* work is split where it can be interleaved with code that does not take  *)
(* timer_mutex (the executor works, the sampler, external hotplug): the    *)
(* read of the tunables before the lock, the locked prologue, one step per *)
(* iteration of for_each_possible_cpu, and the locked epilogue.            *)
(***************************************************************************)
EXTENDS Integers, FiniteSets, Sequences, TLC

(***************************************************************************)
(* Program constants.                                                      *)
(***************************************************************************)
NR_CPUS == 4
MAX_HOTPLUG_RATE == 40
DOWN_INDEX == 0
UP_INDEX == 1
RQ_AVG_TIMER_RATE == 10
NSEC_PER_MSEC == 1000000
USEC_PER_JIFFY == 10000
MIN_SAMPLING_RATE == 10000
DEF_SAMPLING_RATE == 60000

Cpus == 0 .. (NR_CPUS - 1)

(* hotplug_freq / hotplug_load / hotplug_rq [cpu][DOWN_INDEX | UP_INDEX],  *)
(* the non-Exynos 4-row initialisers.  Row r is written <<down, up>>.      *)
(* The tables as they stand are the fields of the variable hotplug_param.  *)
hotplug_freq ==
  [c \in Cpus |-> CASE c = 0 -> <<0, 702000>>
                    [] c = 1 -> <<486000, 702000>>
                    [] c = 2 -> <<486000, 702000>>
                    [] OTHER -> <<486000, 0>>]

hotplug_load ==
  [c \in Cpus |-> CASE c = 0 -> <<0, 65>>
                    [] c = 1 -> <<30, 65>>
                    [] c = 2 -> <<30, 65>>
                    [] OTHER -> <<30, 0>>]

hotplug_rq ==
  [c \in Cpus |-> CASE c = 0 -> <<0, 200>>
                    [] c = 1 -> <<200, 200>>
                    [] c = 2 -> <<200, 300>>
                    [] OTHER -> <<300, 0>>]

(* atomic_read(&table[row][col]) *)
Param(table, row, col) == table[row][col + 1]

(***************************************************************************)
(* Bounds of the model and the input sets the actions draw from.           *)
(***************************************************************************)
(* the monotonic clock stops advancing at this many nanoseconds *)
MaxKtime == 21000000
(* values of nr_running(): 200, 300 and 400 once multiplied by 100 *)
NrRunningSet == {2, 3, 4}
(* clock advances, in ns: less than a millisecond, and one sampler period *)
TimeSteps == {900000, 10000000}
(* (wall_time, idle_time) deltas a cpu can show: loads 90, 20, undefined *)
WallIdleSet == {<<100, 10>>, <<100, 80>>, <<50, 100>>}
(* cpu frequencies in kHz: below every down threshold, above every up one *)
FreqSet == {300000, 1000000}
(* what a write to a tunable's file can carry *)
EnableInputs == {-1, 0, 1, 7}
RateInputs == {0, 2, 41}
(* the decision works counted since enable, where they are counted *)
MaxTicks == 20
(* a cap below the core count and a number above it *)
MaxcoresInputs == {3, 9}
(* sampling periods in us: below the floor, and two above it *)
SamplingInputs == {5000, 30000, 60000}
(* numbers written to a threshold's file, and the files written *)
ParamInputs == {200, 250}
ParamFiles == {[name |-> "hotplug_rq_2_1", file_name |-> "rq",
                num_core |-> 2, up_down |-> UP_INDEX]}

VARIABLES
  hotplug_tuners_ins,            \* the tunables (atomic_t fields)
  hotplug_param,                 \* the threshold tables hotplug_freq, hotplug_load, hotplug_rq
  sampling_store,                \* the position of a running update_sampling_rate and its new_rate
  od_hotplug_cpuinfo,            \* per-cpu struct hotplug_cpuinfo
  hotplugging_rate,              \* static unsigned hotplugging_rate
  other_hotplugging,             \* static bool other_hotplugging
  cpu_online_mask,               \* the hardware truth, cpu_online(cpu)
  rq_data,                       \* struct runqueue_data
  rq_work,                       \* rq_data->work is queued
  ktime,                         \* ktime_to_ns(ktime_get())
  rq_frame,                      \* a run of rq_work_fn in progress: its position and cur_time
  alucard_hotplug_work,          \* the delayed decision work is pending
  timer_expires,                 \* alucard_hotplug_work.timer.expires, in jiffies
  alucard_hotplug_online_work,   \* the bring-online work is pending
  alucard_hotplug_offline_work,  \* the take-offline work is pending
  frame,                         \* the running hotplug_work_fn: locals, position
  enable_store,                  \* store_hotplug_enable between its call and its atomic_set
  hist                           \* history variables, read by the properties only

rqVars == <<rq_data, rq_work, ktime, rq_frame>>

(* no run of rq_work_fn is in progress *)
RqIdle == [pc |-> "none", cur_time |-> 0]

(* no update_sampling_rate is running *)
SamplingIdle == [pc |-> "none", new_rate |-> 0]
ctlVars == <<hotplug_tuners_ins, hotplug_param, sampling_store,
                 od_hotplug_cpuinfo, hotplugging_rate,
             other_hotplugging, cpu_online_mask, alucard_hotplug_work,
             timer_expires,
             alucard_hotplug_online_work, alucard_hotplug_offline_work,
             frame, enable_store>>
vars == <<hotplug_tuners_ins, hotplug_param, sampling_store,
                 od_hotplug_cpuinfo, hotplugging_rate,
          other_hotplugging, cpu_online_mask, rq_data, rq_work, ktime, rq_frame,
          alucard_hotplug_work, timer_expires, alucard_hotplug_online_work,
          alucard_hotplug_offline_work, frame, enable_store, hist>>

Max(a, b) == IF a >= b THEN a ELSE b
Min(a, b) == IF a <= b THEN a ELSE b

(* the jiffies counter at the clock value ktime (HZ = 100) *)
jiffies == ktime \div (USEC_PER_JIFFY * 1000)

(* usecs_to_jiffies: rounded up *)
usecs_to_jiffies(u) == (u + USEC_PER_JIFFY - 1) \div USEC_PER_JIFFY

(* schedule_delayed_work(&alucard_hotplug_work, delay): the deadline the    *)
(* work has afterwards; a work that is pending keeps its timer             *)
ScheduledAt(pending, expires, delay) ==
  IF pending THEN expires ELSE jiffies + delay

(***************************************************************************)
(* Run-queue sampler.                                                      *)
(***************************************************************************)

(* the accumulated time kept across a zero average *)
ResetTotalOnZeroAvg_Never(nr_run_avg, total_time) == total_time

(* rq_work_fn: "if (rq_data->nr_run_avg == 0) rq_data->total_time = 0" *)
ResetTotalOnZeroAvg(nr_run_avg, total_time) ==
  IF nr_run_avg = 0 THEN 0 ELSE total_time

(* rq_work_fn: the weighted fold of nr_run into the average *)
FoldNrRun(nr_run, time_diff, nr_run_avg, total_time) ==
  IF time_diff # 0 /\ total_time # 0
    THEN (nr_run * time_diff + nr_run_avg * total_time)
           \div (total_time + time_diff)
    ELSE nr_run

(* rq_work_fn between spin_lock_irqsave and the requeue, on the fields     *)
(* nr_run_avg, last_time, total_time of rq                                 *)
rq_sample(rq, cur_time, nr_running) ==
  LET last_time  == IF rq.last_time = 0 THEN cur_time ELSE rq.last_time
      total_time == ResetTotalOnZeroAvg(rq.nr_run_avg, rq.total_time)
      time_diff  == (cur_time - last_time) \div NSEC_PER_MSEC
      nr_run     == FoldNrRun(nr_running * 100, time_diff,
                              rq.nr_run_avg, total_time)
  IN [rq EXCEPT !.nr_run_avg = nr_run,
                !.total_time = total_time + time_diff,
                !.last_time = cur_time]

(* start_rq_work: the three unlocked stores and the workqueue creation *)
rq_started(rq) ==
  [rq EXCEPT !.nr_run_avg = 0, !.last_time = 0, !.total_time = 0,
             !.nr_run_wq = TRUE]

(* get_nr_run_avg: the value left behind *)
rq_read(rq) == [rq EXCEPT !.nr_run_avg = 0]

(* history of the sampler, kept when hist.trace_rq is set: inst is the     *)
(* instantaneous value the last run of rq_work_fn read; fresh is the       *)
(* sampler a reader would have if each read also threw the accumulated     *)
(* time away, ret what that sampler last returned                          *)
HistSample(h, rq, cur_time, nr_running) ==
  IF h.trace_rq
    THEN [h EXCEPT !.inst = nr_running * 100,
                   !.fresh = rq_sample(h.fresh, cur_time, nr_running)]
    ELSE h

HistRead(h, rq) ==
  IF h.trace_rq
    THEN [h EXCEPT !.fresh = [rq EXCEPT !.nr_run_avg = 0, !.total_time = 0],
                   !.ret = h.fresh.nr_run_avg]
    ELSE h

HistStart(h, rq) ==
  IF h.trace_rq
    THEN [h EXCEPT !.fresh = rq_started(rq)]
    ELSE h

(* rq_work_fn: the queued sampler work runs and requeues itself *)
rq_work_fn ==
  /\ rq_work
  /\ \E n \in NrRunningSet :
       /\ rq_data' = rq_sample(rq_data, ktime, n)
       /\ hist' = HistSample(hist, rq_data, ktime, n)
  /\ rq_work' = (RQ_AVG_TIMER_RATE # 0)
  /\ UNCHANGED <<ktime, rq_frame, ctlVars>>

(* rq_work_fn in two steps.  The first: the work leaves its queue, reads   *)
(* the clock and takes rq_data->lock                                       *)
rq_work_fn_enter ==
  /\ rq_work
  /\ rq_frame.pc = "none"
  /\ rq_work' = FALSE
  /\ rq_frame' = [pc |-> "locked", cur_time |-> ktime]
  /\ UNCHANGED <<rq_data, ktime, hist, ctlVars>>

(* the second: the fold, the requeue and spin_unlock_irqrestore *)
rq_work_fn_exit ==
  /\ rq_frame.pc = "locked"
  /\ \E n \in NrRunningSet :
       /\ rq_data' = rq_sample(rq_data, rq_frame.cur_time, n)
       /\ hist' = HistSample(hist, rq_data, rq_frame.cur_time, n)
  /\ rq_work' = (RQ_AVG_TIMER_RATE # 0)
  /\ rq_frame' = RqIdle
  /\ UNCHANGED <<ktime, ctlVars>>

(* start_rq_work, stop_rq_work and get_nr_run_avg called on their own *)
start_rq_work_call ==
  /\ rq_data' = rq_started(rq_data)
  /\ rq_work' = TRUE
  /\ hist' = HistStart(hist, rq_data)
  /\ UNCHANGED <<ktime, rq_frame, ctlVars>>

stop_rq_work_call ==
  /\ rq_work' = IF rq_data.nr_run_wq THEN FALSE ELSE rq_work
  /\ UNCHANGED <<rq_data, ktime, rq_frame, hist, ctlVars>>

get_nr_run_avg_call ==
  /\ rq_frame.pc = "none"
  /\ frame' = [frame EXCEPT !.rq_avg = rq_data.nr_run_avg]
  /\ rq_data' = rq_read(rq_data)
  /\ hist' = HistRead(hist, rq_data)
  /\ UNCHANGED <<rq_work, ktime, rq_frame, hotplug_tuners_ins, hotplug_param,
                 sampling_store, od_hotplug_cpuinfo,
                 hotplugging_rate, other_hotplugging, cpu_online_mask,
                 alucard_hotplug_work, timer_expires,
                 alucard_hotplug_online_work,
                 alucard_hotplug_offline_work, enable_store>>

(* the monotonic clock *)
AdvanceTime ==
  /\ \E d \in TimeSteps : ktime + d <= MaxKtime /\ ktime' = ktime + d
  /\ UNCHANGED <<rq_data, rq_work, rq_frame, hist, ctlVars>>

(***************************************************************************)
(* The decision work, hotplug_work_fn.                                     *)
(***************************************************************************)

(* the locals of hotplug_work_fn as declared, before it has read anything. *)
(* cur_load and cur_freq are the locals of the loop body as the last       *)
(* iteration left them, kept when hist.trace_eval is set.  The four fields *)
(* before them are a record of the run for the properties:                 *)
(* up_marked and down_marked list the cpus this run has marked online and  *)
(* offline, drift_at_lock tells whether a recorded online flag disagreed   *)
(* with the hardware when the run took timer_mutex, restored lists the     *)
(* pairs <<c, t>> of a cpu c seen offline on both sides whose up_by_cpu    *)
(* was t                                                                   *)
FrameIdle ==
  [pc |-> "none", cpu |-> 0, hotplug_enable |-> FALSE,
   upmaxcoreslimit |-> 0, up_rate |-> 0, down_rate |-> 0,
   check_up |-> FALSE, check_down |-> FALSE,
   schedule_up_cpu |-> 1, schedule_down_cpu |-> 1,
   rq_avg |-> 0, up_cpu_req |-> -1,
   up_marked |-> {}, down_marked |-> {}, drift_at_lock |-> FALSE,
   restored |-> {}, cur_load |-> -1, cur_freq |-> 0,
   failed_at_lock |-> FALSE]

(* timer_mutex is held by hotplug_work_fn from its prologue to its exit;   *)
(* its other holders take and release it within one step                   *)
TimerMutexFree == frame.pc # "loop"

(* no floor kept under the cap *)
downmaxcoreslimit_NoFloor(upmaxcoreslimit) == 0

(* int downmaxcoreslimit = (upmaxcoreslimit == NR_CPUS ? 0 : upmaxcoreslimit - 1) *)
downmaxcoreslimit(upmaxcoreslimit) ==
  IF upmaxcoreslimit = NR_CPUS THEN 0 ELSE upmaxcoreslimit - 1

(* cpu_online(cpu) as the int the code compares and tests *)
OnlineInt(mask, cpu) == IF mask[cpu] THEN 1 ELSE 0

NumOnlineCpus(mask) == Cardinality({c \in Cpus : mask[c]})

Drift(info, mask) == \E c \in Cpus : info[c].online # mask[c]

(* cur_load of one iteration, -1 when it is not to be evaluated *)
CurLoad(wall_time, idle_time, online) ==
  IF wall_time >= idle_time /\ online
    THEN IF wall_time > idle_time
           THEN (100 * (wall_time - idle_time)) \div wall_time
           ELSE 0
    ELSE -1

(* cur_freq of one iteration: the frequency read, or 0 *)
CurFreq(wall_time, idle_time, online, freq_read) ==
  IF wall_time >= idle_time /\ online THEN freq_read ELSE 0

(* One iteration works on s = [info, oh, onw, offw, f]: the per-cpu table, *)
(* other_hotplugging, the two executor works' pending bits, the frame.     *)

(* the back-reference cleared without restoring the up_cpu of its target *)
DriftOrRestore_ForgetTrigger(s, cpu, online) ==
  IF s.info[cpu].online # online
    THEN [s EXCEPT !.oh = TRUE]
    ELSE IF ~online
      THEN LET by == s.info[cpu].up_by_cpu
           IN [s EXCEPT !.info[cpu].up_cpu = 1,
                        !.info[cpu].up_by_cpu = -1,
                        !.f.restored = IF by >= 0 THEN @ \cup {<<cpu, by>>}
                                                  ELSE @]
      ELSE s

(* lines 670-680: drift detection, and for a cpu offline on both sides the *)
(* restoration of up_cpu and of the up_cpu of the cpu that brought it up   *)
DriftOrRestore(s, cpu, online) ==
  IF s.info[cpu].online # online
    THEN [s EXCEPT !.oh = TRUE]
    ELSE IF ~online
      THEN LET by == s.info[cpu].up_by_cpu
               i1 == [s.info EXCEPT ![cpu].up_cpu = 1]
               i2 == IF by >= 0
                       THEN [[i1 EXCEPT ![by].up_cpu = 1]
                                 EXCEPT ![cpu].up_by_cpu = -1]
                       ELSE i1
           IN [s EXCEPT !.info = i2,
                        !.f.restored = IF by >= 0 THEN @ \cup {<<cpu, by>>}
                                                  ELSE @]
      ELSE s

(* lines 697-701: this cpu may be the up trigger *)
UpEligible(s, cpu, online) ==
  /\ s.f.check_up
  /\ cpu < s.f.upmaxcoreslimit - 1
  /\ s.info[cpu].up_cpu > 0
  /\ s.f.schedule_up_cpu > 0
  /\ online

(* lines 702-704, thresholds read at lines 663, 665, 667 *)
UpQualifies(cpu, cur_load, cur_freq, rq_avg) ==
  /\ cur_load >= Param(hotplug_param.load, cpu, UP_INDEX)
  /\ cur_freq >= Param(hotplug_param.freq, cpu, UP_INDEX)
  /\ rq_avg > Param(hotplug_param.rq, cpu, UP_INDEX)

(* lines 705-707 *)
UpTrigger(s, cpu) ==
  [s EXCEPT !.f.schedule_up_cpu = @ - 1,
            !.info[cpu].up_cpu = 0,
            !.f.up_cpu_req = cpu]

(* the cpu at the floor taken too *)
DownEligible_AtFloor(s, cpu, online, cur_load) ==
  /\ s.f.check_down
  /\ cpu >= downmaxcoreslimit(s.f.upmaxcoreslimit)
  /\ online
  /\ s.f.schedule_down_cpu > 0
  /\ cur_load >= 0

(* lines 710-714: this cpu may be taken offline *)
DownEligible(s, cpu, online, cur_load) ==
  /\ s.f.check_down
  /\ cpu > downmaxcoreslimit(s.f.upmaxcoreslimit)
  /\ online
  /\ s.f.schedule_down_cpu > 0
  /\ cur_load >= 0

(* lines 715-718, thresholds read at lines 664, 666, 668; online_int is    *)
(* the value cpu_online(cpu) returned                                      *)
DownQualifies(cpu, online_int, cur_load, cur_freq, rq_avg) ==
  \/ /\ online_int >= 2
     /\ cur_load < Param(hotplug_param.load, cpu, DOWN_INDEX)
  \/ /\ cur_freq <= Param(hotplug_param.freq, cpu, DOWN_INDEX)
     /\ rq_avg <= Param(hotplug_param.rq, cpu, DOWN_INDEX)

(* lines 719-721 *)
DownMark(s, cpu) ==
  [s EXCEPT !.info[cpu].online = FALSE,
            !.f.schedule_down_cpu = @ - 1,
            !.offw = TRUE,
            !.f.down_marked = @ \cup {cpu}]

(* schedule_up_cpu left at 0 after a cpu has been marked online *)
AfterUpMark_Keep(schedule_up_cpu) == schedule_up_cpu

(* line 727: schedule_up_cpu after a cpu has been marked online *)
AfterUpMark(schedule_up_cpu) == schedule_up_cpu - 1

(* the marked cpu recorded as its own trigger *)
UpMark_BySelf(s, cpu) ==
  [s EXCEPT !.info[cpu].online = TRUE,
            !.info[cpu].up_by_cpu = cpu,
            !.f.schedule_up_cpu = AfterUpMark(@),
            !.onw = TRUE,
            !.f.up_marked = @ \cup {cpu}]

(* lines 724-729 *)
UpMark(s, cpu) ==
  [s EXCEPT !.info[cpu].online = TRUE,
            !.info[cpu].up_by_cpu = s.f.up_cpu_req,
            !.f.schedule_up_cpu = AfterUpMark(@),
            !.onw = TRUE,
            !.f.up_marked = @ \cup {cpu}]

(* lines 681-730: the evaluation of one cpu when no drift has been seen *)
Evaluate(s, cpu, mask, wall_time, idle_time, freq_read) ==
  LET online   == mask[cpu]
      cur_load == CurLoad(wall_time, idle_time, online)
      cur_freq == CurFreq(wall_time, idle_time, online, freq_read)
      s1 == IF UpEligible(s, cpu, online)
               /\ UpQualifies(cpu, cur_load, cur_freq, s.f.rq_avg)
              THEN UpTrigger(s, cpu) ELSE s
      s2 == IF DownEligible(s1, cpu, online, cur_load)
               /\ DownQualifies(cpu, OnlineInt(mask, cpu), cur_load,
                                cur_freq, s1.f.rq_avg)
              THEN DownMark(s1, cpu) ELSE s1
      s3 == IF s2.f.schedule_up_cpu = 0 /\ ~online
              THEN UpMark(s2, cpu) ELSE s2
  IN s3

(* lines 640-730: one iteration of for_each_possible_cpu *)
CpuIteration(s, cpu, mask, wall_time, idle_time, freq_read) ==
  LET s0 == DriftOrRestore(s, cpu, mask[cpu])
  IN IF s0.oh = FALSE
       THEN Evaluate(s0, cpu, mask, wall_time, idle_time, freq_read)
       ELSE s0

(* the online flags copied, up_cpu and up_by_cpu left as they are *)
Resync_OnlineOnly(info, mask) ==
  [c \in Cpus |-> [info[c] EXCEPT !.online = mask[c]]]

(* lines 733-740: every recorded flag copied from the hardware *)
Resync(info, mask) ==
  [c \in Cpus |-> [online |-> mask[c], up_cpu |-> 1, up_by_cpu |-> -1]]

(* cpu 0 left as it is *)
RearmSingle_Never(info, mask) == info

(* lines 750-752 and 605-607 *)
RearmSingle(info, mask) ==
  IF NumOnlineCpus(mask) = 1 THEN [info EXCEPT ![0].up_cpu = 1] ELSE info

(* the counter reset only where it equals the larger rate *)
WrapRate_OnEqual(rate, up_rate, down_rate) ==
  IF rate = Max(up_rate, down_rate) THEN 0 ELSE rate

(* lines 742-744 *)
WrapRate(rate, up_rate, down_rate) ==
  IF rate >= Max(up_rate, down_rate) THEN 0 ELSE rate

(* history of the executor works, kept when hist.trace_exec is set: failed *)
(* tells that a cpu_up or cpu_down call has failed since the recorded      *)
(* flags were last copied from the hardware                                *)
HistExec(h, wanted, ok) ==
  IF h.trace_exec THEN [h EXCEPT !.failed = @ \/ (ok # wanted)] ELSE h

HistResync(h, resynced) ==
  IF h.trace_exec /\ resynced THEN [h EXCEPT !.failed = FALSE] ELSE h

(* history: the number of the decision work since the last enable *)
HistTick(h) ==
  IF h.trace_ticks THEN [h EXCEPT !.tickno = @ + 1] ELSE h

(* lines 610-627: the work starts and reads the tunables, before the lock; *)
(* with hotplug_enable clear it only takes and drops the lock              *)
hotplug_work_enter ==
  /\ alucard_hotplug_work
  /\ frame.pc = "none"
  /\ alucard_hotplug_work' = FALSE
  /\ frame' = IF hotplug_tuners_ins.hotplug_enable > 0
                THEN [FrameIdle EXCEPT
                        !.pc = "entered",
                        !.hotplug_enable = TRUE,
                        !.upmaxcoreslimit = hotplug_tuners_ins.maxcoreslimit,
                        !.up_rate = hotplug_tuners_ins.cpu_up_rate,
                        !.down_rate = hotplug_tuners_ins.cpu_down_rate]
                ELSE frame
  /\ UNCHANGED <<hotplug_tuners_ins, hotplug_param, sampling_store,
                 od_hotplug_cpuinfo, hotplugging_rate,
                 other_hotplugging, cpu_online_mask, timer_expires,
                 alucard_hotplug_online_work, alucard_hotplug_offline_work,
                 enable_store, rqVars, hist>>

(* lines 629-637: mutex_lock and the prologue *)
hotplug_work_lock ==
  /\ frame.pc = "entered"
  /\ rq_frame.pc = "none"
  /\ hist.trace_ticks => hist.tickno < MaxTicks
  /\ hotplugging_rate' = hotplugging_rate + 1
  /\ frame' = [frame EXCEPT
                 !.pc = "loop",
                 !.cpu = 0,
                 !.check_up = (hotplugging_rate' % frame.up_rate = 0),
                 !.check_down = (hotplugging_rate' % frame.down_rate = 0),
                 !.rq_avg = rq_data.nr_run_avg,
                 !.drift_at_lock = Drift(od_hotplug_cpuinfo, cpu_online_mask),
                 !.failed_at_lock = hist.failed]
  /\ other_hotplugging' = FALSE
  /\ rq_data' = rq_read(rq_data)
  /\ hist' = HistTick(HistRead(hist, rq_data))
  /\ UNCHANGED <<hotplug_tuners_ins, hotplug_param, sampling_store,
                 od_hotplug_cpuinfo, cpu_online_mask,
                 alucard_hotplug_work, timer_expires,
                 alucard_hotplug_online_work,
                 alucard_hotplug_offline_work, enable_store, rq_work, ktime,
                 rq_frame>>

(* lines 639-731: one iteration of the per-cpu loop *)
hotplug_work_cpu ==
  /\ frame.pc = "loop"
  /\ frame.cpu < NR_CPUS
  /\ \E wi \in WallIdleSet, fr \in FreqSet :
       LET s == [info |-> od_hotplug_cpuinfo, oh |-> other_hotplugging,
                 onw |-> alucard_hotplug_online_work,
                 offw |-> alucard_hotplug_offline_work, f |-> frame]
           r == CpuIteration(s, frame.cpu, cpu_online_mask, wi[1], wi[2], fr)
       IN /\ od_hotplug_cpuinfo' = r.info
          /\ other_hotplugging' = r.oh
          /\ alucard_hotplug_online_work' = r.onw
          /\ alucard_hotplug_offline_work' = r.offw
          /\ frame' = [r.f EXCEPT
                          !.cpu = @ + 1,
                          !.cur_load =
                             IF hist.trace_eval /\ ~r.oh
                               THEN CurLoad(wi[1], wi[2],
                                            cpu_online_mask[frame.cpu])
                               ELSE -1,
                          !.cur_freq =
                             IF hist.trace_eval /\ ~r.oh
                               THEN CurFreq(wi[1], wi[2],
                                            cpu_online_mask[frame.cpu], fr)
                               ELSE 0]
  /\ UNCHANGED <<hotplug_tuners_ins, hotplug_param, sampling_store,
                 hotplugging_rate, cpu_online_mask,
                 alucard_hotplug_work, timer_expires, enable_store,
                 rqVars, hist>>

(* lines 733-755: resynchronisation, wrap of the counter, re-arm of cpu 0, *)
(* requeue, mutex_unlock                                                   *)
hotplug_work_exit ==
  /\ frame.pc = "loop"
  /\ frame.cpu = NR_CPUS
  /\ od_hotplug_cpuinfo' =
       RearmSingle(IF other_hotplugging
                     THEN Resync(od_hotplug_cpuinfo, cpu_online_mask)
                     ELSE od_hotplug_cpuinfo,
                   cpu_online_mask)
  /\ other_hotplugging' = FALSE
  /\ hotplugging_rate' = WrapRate(hotplugging_rate, frame.up_rate, frame.down_rate)
  /\ alucard_hotplug_work' = TRUE
  /\ timer_expires' =
       ScheduledAt(alucard_hotplug_work, timer_expires,
                   usecs_to_jiffies(hotplug_tuners_ins.hotplug_sampling_rate))
  /\ frame' = FrameIdle
  /\ hist' = HistResync(hist, other_hotplugging)
  /\ UNCHANGED <<hotplug_tuners_ins, hotplug_param, sampling_store,
                 cpu_online_mask,
                 alucard_hotplug_online_work, alucard_hotplug_offline_work,
                 enable_store, rqVars>>

(***************************************************************************)
(* The executor works.  One run makes its cpu_up or cpu_down calls in one  *)
(* step; each call can fail and leave the cpu as it was.                   *)
(***************************************************************************)

(* cpu_online_work_fn: the cpus it calls cpu_up on *)
OnlineWanted(info, mask) == {c \in Cpus : ~mask[c] /\ info[c].online = TRUE}

(* cpu_offline_work_fn: the cpus it calls cpu_down on *)
OfflineWanted(info, mask) == {c \in Cpus : mask[c] /\ info[c].online = FALSE}

(* cpu_down(0) is refused by the platform: cpu 0 cannot be unplugged *)
CanGoDown(c) == c # 0

cpu_online_work_fn ==
  /\ alucard_hotplug_online_work
  /\ alucard_hotplug_online_work' = FALSE
  /\ LET wanted == OnlineWanted(od_hotplug_cpuinfo, cpu_online_mask)
     IN \E ok \in SUBSET wanted :
          /\ cpu_online_mask' = [c \in Cpus |-> cpu_online_mask[c] \/ c \in ok]
          /\ hist' = HistExec(hist, wanted, ok)
  /\ UNCHANGED <<hotplug_tuners_ins, hotplug_param, sampling_store,
                 od_hotplug_cpuinfo, hotplugging_rate,
                 other_hotplugging, alucard_hotplug_work, timer_expires,
                 alucard_hotplug_offline_work, frame, enable_store,
                 rqVars>>

cpu_offline_work_fn ==
  /\ alucard_hotplug_offline_work
  /\ alucard_hotplug_offline_work' = FALSE
  /\ LET wanted == OfflineWanted(od_hotplug_cpuinfo, cpu_online_mask)
     IN \E ok \in SUBSET {c \in wanted : CanGoDown(c)} :
          /\ cpu_online_mask' = [c \in Cpus |-> cpu_online_mask[c] /\ c \notin ok]
          /\ hist' = [HistExec(hist, wanted, ok)
                        EXCEPT !.down0 = @ \/ 0 \in wanted]
  /\ od_hotplug_cpuinfo' = RearmSingle(od_hotplug_cpuinfo, cpu_online_mask')
  /\ UNCHANGED <<hotplug_tuners_ins, hotplug_param, sampling_store,
                 hotplugging_rate, other_hotplugging,
                 alucard_hotplug_work, timer_expires,
                 alucard_hotplug_online_work, frame, enable_store, rqVars>>

(***************************************************************************)
(* store_hotplug_enable and cpus_hotplugging.                              *)
(***************************************************************************)

(* history: the last write to a tunable's file and the number written *)
HistCall(h, file, input) ==
  IF h.trace_call THEN [h EXCEPT !.call = [file |-> file, input |-> input]]
                  ELSE h

(* history: the sampling rate a running update_sampling_rate replaced *)
HistRate(h, old_rate) ==
  IF h.trace_rate THEN [h EXCEPT !.old_rate = old_rate] ELSE h

(* no early return *)
SameAsCurrent_Never(current, input) == FALSE

(* if (input == atomic_read(&...)) return count; *)
SameAsCurrent(current, input) == input = current

(* every online cpu taken, cpu 0 not skipped *)
DisableTargets_All(mask) == {c \in Cpus : mask[c]}

(* cpus_hotplugging(false): the cpus it calls cpu_down on *)
DisableTargets(mask) == {c \in Cpus : mask[c] /\ c # 0}

(* cpus_hotplugging(true), under timer_mutex *)
cpus_hotplugging_on(h) ==
  /\ rq_data' = rq_started(rq_data)
  /\ rq_work' = TRUE
  /\ od_hotplug_cpuinfo' = Resync(od_hotplug_cpuinfo, cpu_online_mask)
  /\ hotplugging_rate' = 0
  /\ alucard_hotplug_work' = TRUE
  /\ timer_expires' =
       ScheduledAt(alucard_hotplug_work, timer_expires,
                   usecs_to_jiffies(hotplug_tuners_ins.hotplug_sampling_rate))
  /\ hist' = [HistResync(HistStart(h, rq_data), TRUE) EXCEPT !.tickno = 0]
  /\ UNCHANGED <<cpu_online_mask, ktime, rq_frame>>

(* cpus_hotplugging(false), under timer_mutex *)
cpus_hotplugging_off(h) ==
  /\ rq_work' = IF rq_data.nr_run_wq THEN FALSE ELSE rq_work
  /\ LET targets == DisableTargets(cpu_online_mask)
     IN /\ \E ok \in SUBSET {c \in targets : CanGoDown(c)} :
             cpu_online_mask' = [c \in Cpus |-> cpu_online_mask[c] /\ c \notin ok]
        /\ hist' = [h EXCEPT !.down0 = @ \/ 0 \in targets]
  /\ UNCHANGED <<rq_data, ktime, rq_frame, od_hotplug_cpuinfo,
                 hotplugging_rate,
                 alucard_hotplug_work, timer_expires>>

(* store_hotplug_enable up to the return of cpus_hotplugging (lines 429-447) *)
store_hotplug_enable_call ==
  /\ enable_store = -1
  /\ \E v \in EnableInputs :
       LET input == IF v > 0 THEN 1 ELSE 0
           h == HistCall(hist, "hotplug_enable", v)
       IN IF SameAsCurrent(hotplug_tuners_ins.hotplug_enable, input)
            THEN /\ hist' = h
                 /\ UNCHANGED <<ctlVars, rqVars>>
            ELSE /\ TimerMutexFree
                 /\ IF input > 0 THEN cpus_hotplugging_on(h)
                                 ELSE cpus_hotplugging_off(h)
                 /\ enable_store' = input
                 /\ UNCHANGED <<hotplug_tuners_ins, hotplug_param,
                                sampling_store, other_hotplugging,
                                alucard_hotplug_online_work,
                                alucard_hotplug_offline_work, frame>>

(* store_hotplug_enable, line 449: atomic_set and return *)
store_hotplug_enable_set ==
  /\ enable_store # -1
  /\ hotplug_tuners_ins' = [hotplug_tuners_ins EXCEPT !.hotplug_enable = enable_store]
  /\ enable_store' = -1
  /\ UNCHANGED <<hotplug_param, sampling_store,
                 od_hotplug_cpuinfo, hotplugging_rate, other_hotplugging,
                 cpu_online_mask, alucard_hotplug_work, timer_expires,
                 alucard_hotplug_online_work, alucard_hotplug_offline_work,
                 frame, rqVars, hist>>

(***************************************************************************)
(* The other store handlers.                                               *)
(***************************************************************************)

(* the floor of 1 left out *)
ClampRate_NoFloor(input) == Min(input, MAX_HOTPLUG_RATE)

(* input = max(min(input, MAX_HOTPLUG_RATE), 1) *)
ClampRate(input) == Max(Min(input, MAX_HOTPLUG_RATE), 1)

(* input = max(input > NR_CPUS ? NR_CPUS : input, 1) *)
ClampMaxcores(input) == Max(IF input > NR_CPUS THEN NR_CPUS ELSE input, 1)

(* the tunables with one field written, or as they are on the early return *)
Written(field, input) ==
  IF SameAsCurrent(hotplug_tuners_ins[field], input)
    THEN hotplug_tuners_ins
    ELSE [hotplug_tuners_ins EXCEPT ![field] = input]

store_cpu_up_rate ==
  /\ \E v \in RateInputs :
       /\ hotplug_tuners_ins' = Written("cpu_up_rate", ClampRate(v))
       /\ hist' = HistCall(hist, "cpu_up_rate", v)
  /\ UNCHANGED <<hotplug_param, sampling_store,
                 od_hotplug_cpuinfo, hotplugging_rate, other_hotplugging,
                 cpu_online_mask, alucard_hotplug_work, timer_expires,
                 alucard_hotplug_online_work, alucard_hotplug_offline_work,
                 frame, enable_store, rqVars>>

store_cpu_down_rate ==
  /\ \E v \in RateInputs :
       /\ hotplug_tuners_ins' = Written("cpu_down_rate", ClampRate(v))
       /\ hist' = HistCall(hist, "cpu_down_rate", v)
  /\ UNCHANGED <<hotplug_param, sampling_store,
                 od_hotplug_cpuinfo, hotplugging_rate, other_hotplugging,
                 cpu_online_mask, alucard_hotplug_work, timer_expires,
                 alucard_hotplug_online_work, alucard_hotplug_offline_work,
                 frame, enable_store, rqVars>>

store_maxcoreslimit ==
  /\ \E v \in MaxcoresInputs :
       /\ hotplug_tuners_ins' = Written("maxcoreslimit", ClampMaxcores(v))
       /\ hist' = HistCall(hist, "maxcoreslimit", v)
  /\ UNCHANGED <<hotplug_param, sampling_store,
                 od_hotplug_cpuinfo, hotplugging_rate, other_hotplugging,
                 cpu_online_mask, alucard_hotplug_work, timer_expires,
                 alucard_hotplug_online_work, alucard_hotplug_offline_work,
                 frame, enable_store, rqVars>>

(* input = input > 0 *)
store_accuratecpufreq ==
  /\ \E v \in EnableInputs :
       /\ hotplug_tuners_ins' =
            Written("accuratecpufreq", IF v > 0 THEN 1 ELSE 0)
       /\ hist' = HistCall(hist, "accuratecpufreq", v)
  /\ UNCHANGED <<hotplug_param, sampling_store,
                 od_hotplug_cpuinfo, hotplugging_rate, other_hotplugging,
                 cpu_online_mask, alucard_hotplug_work, timer_expires,
                 alucard_hotplug_online_work, alucard_hotplug_offline_work,
                 frame, enable_store, rqVars>>

(* store_hotplug_param(file_name, num_core, up_down): the cell             *)
(* file_name[num_core - 1][up_down] takes the number as written.  The      *)
(* files written here are those of ParamFiles.                             *)
store_hotplug_param ==
  /\ \E f \in ParamFiles, v \in ParamInputs :
       LET cur == Param(hotplug_param[f.file_name], f.num_core - 1, f.up_down)
       IN /\ hotplug_param' =
               IF SameAsCurrent(cur, v)
                 THEN hotplug_param
                 ELSE [hotplug_param
                         EXCEPT ![f.file_name][f.num_core - 1][f.up_down + 1] = v]
          /\ hist' = HistCall(hist, f.name, v)
  /\ UNCHANGED <<hotplug_tuners_ins, sampling_store,
                 od_hotplug_cpuinfo, hotplugging_rate, other_hotplugging,
                 cpu_online_mask, alucard_hotplug_work, timer_expires,
                 alucard_hotplug_online_work, alucard_hotplug_offline_work,
                 frame, enable_store, rqVars>>

(***************************************************************************)
(* store_hotplug_sampling_rate and update_sampling_rate.                   *)
(***************************************************************************)

(* the pending work is moved whatever its deadline *)
NeedsResched_Always(next_sampling, appointed_at) == TRUE

(* time_before(next_sampling, appointed_at) *)
NeedsResched(next_sampling, appointed_at) == next_sampling < appointed_at

(* store_hotplug_sampling_rate up to the atomic_set of update_sampling_rate *)
store_hotplug_sampling_rate ==
  /\ sampling_store.pc = "none"
  /\ \E v \in SamplingInputs :
       LET input == Max(v, MIN_SAMPLING_RATE)
           h == HistCall(hist, "hotplug_sampling_rate", v)
       IN IF SameAsCurrent(hotplug_tuners_ins.hotplug_sampling_rate, input)
            THEN /\ hist' = h
                 /\ UNCHANGED <<hotplug_tuners_ins, sampling_store>>
            ELSE /\ hist' =
                      HistRate(h, hotplug_tuners_ins.hotplug_sampling_rate)
                 /\ hotplug_tuners_ins' =
                      [hotplug_tuners_ins
                         EXCEPT !.hotplug_sampling_rate = input]
                 /\ sampling_store' = [pc |-> "lock", new_rate |-> input]
  /\ UNCHANGED <<hotplug_param,
                 od_hotplug_cpuinfo, hotplugging_rate, other_hotplugging,
                 cpu_online_mask, alucard_hotplug_work, timer_expires,
                 alucard_hotplug_online_work, alucard_hotplug_offline_work,
                 frame, enable_store, rqVars>>

(* update_sampling_rate under timer_mutex: nothing pending, or the pending *)
(* work left alone, or the mutex dropped to cancel it                      *)
update_sampling_rate_lock ==
  /\ sampling_store.pc = "lock"
  /\ TimerMutexFree
  /\ LET next_sampling ==
           jiffies + usecs_to_jiffies(sampling_store.new_rate)
         appointed_at == timer_expires
     IN sampling_store' =
          IF alucard_hotplug_work /\ NeedsResched(next_sampling, appointed_at)
            THEN [sampling_store EXCEPT !.pc = "cancel"]
            ELSE SamplingIdle
  /\ UNCHANGED <<hotplug_tuners_ins, hotplug_param,
                 od_hotplug_cpuinfo, hotplugging_rate, other_hotplugging,
                 cpu_online_mask, alucard_hotplug_work, timer_expires,
                 alucard_hotplug_online_work, alucard_hotplug_offline_work,
                 frame, enable_store, rqVars, hist>>

(* cancel_delayed_work_sync returns: no decision work queued or running *)
update_sampling_rate_cancel ==
  /\ sampling_store.pc = "cancel"
  /\ frame.pc = "none"
  /\ alucard_hotplug_work' = FALSE
  /\ sampling_store' = [sampling_store EXCEPT !.pc = "sched"]
  /\ UNCHANGED <<hotplug_tuners_ins, hotplug_param,
                 od_hotplug_cpuinfo, hotplugging_rate, other_hotplugging,
                 cpu_online_mask, timer_expires,
                 alucard_hotplug_online_work, alucard_hotplug_offline_work,
                 frame, enable_store, rqVars, hist>>

(* mutex_lock, schedule_delayed_work_on(cpu, ..., usecs_to_jiffies(new_rate)) *)
update_sampling_rate_sched ==
  /\ sampling_store.pc = "sched"
  /\ TimerMutexFree
  /\ alucard_hotplug_work' = TRUE
  /\ timer_expires' =
       ScheduledAt(alucard_hotplug_work, timer_expires,
                   usecs_to_jiffies(sampling_store.new_rate))
  /\ sampling_store' = SamplingIdle
  /\ UNCHANGED <<hotplug_tuners_ins, hotplug_param,
                 od_hotplug_cpuinfo, hotplugging_rate, other_hotplugging,
                 cpu_online_mask,
                 alucard_hotplug_online_work, alucard_hotplug_offline_work,
                 frame, enable_store, rqVars, hist>>

(***************************************************************************)
(* The environment: something other than this driver plugs a cpu in or     *)
(* out.  Cpu 0 cannot be unplugged on this platform; the cpus others plug  *)
(* are those of ExternalCpus.                                              *)
(***************************************************************************)
ExternalCpus == {NR_CPUS - 1}

ExternalHotplug ==
  /\ \E c \in ExternalCpus :
       cpu_online_mask' = [cpu_online_mask EXCEPT ![c] = ~@]
  /\ UNCHANGED <<hotplug_tuners_ins, hotplug_param, sampling_store,
                 od_hotplug_cpuinfo, hotplugging_rate,
                 other_hotplugging, alucard_hotplug_work, timer_expires,
                 alucard_hotplug_online_work, alucard_hotplug_offline_work,
                 frame, enable_store, rqVars, hist>>

(***************************************************************************)
(* Initial states and specifications.                                      *)
(***************************************************************************)
HistInit(trace_rq, trace_ticks) ==
  [trace_rq |-> trace_rq, trace_ticks |-> trace_ticks,
   inst |-> 0,
   fresh |-> [nr_run_avg |-> 0, last_time |-> 0, total_time |-> 0,
              nr_run_wq |-> FALSE],
   ret |-> 0, tickno |-> 0, down0 |-> FALSE,
   trace_eval |-> FALSE, trace_exec |-> FALSE, failed |-> FALSE,
   trace_call |-> FALSE, call |-> [file |-> "none", input |-> 0],
   trace_rate |-> FALSE, old_rate |-> 0]

(* the state alucard_hotplug_init leaves (lines 758-803, 110-122), with    *)
(* the rates up and down as written to their files and the cpus of mask    *)
(* online                                                                  *)
InitState(up, down, mask) ==
  /\ hotplug_tuners_ins = [hotplug_sampling_rate |-> DEF_SAMPLING_RATE,
                           accuratecpufreq |-> 0,
                           hotplug_enable |-> 0, cpu_up_rate |-> up,
                           cpu_down_rate |-> down, maxcoreslimit |-> NR_CPUS]
  /\ hotplug_param = [freq |-> hotplug_freq, load |-> hotplug_load,
                      rq |-> hotplug_rq]
  /\ sampling_store = SamplingIdle
  /\ cpu_online_mask = mask
  /\ od_hotplug_cpuinfo =
       [c \in Cpus |-> [online |-> mask[c], up_cpu |-> 1, up_by_cpu |-> -1]]
  /\ hotplugging_rate = 0
  /\ other_hotplugging = FALSE
  /\ rq_data = [nr_run_avg |-> 0, last_time |-> 0, total_time |-> 0,
                nr_run_wq |-> FALSE]
  /\ rq_work = FALSE
  /\ rq_frame = RqIdle
  /\ ktime = NSEC_PER_MSEC
  /\ alucard_hotplug_work = TRUE
  /\ timer_expires = jiffies + usecs_to_jiffies(DEF_SAMPLING_RATE)
  /\ alucard_hotplug_online_work = FALSE
  /\ alucard_hotplug_offline_work = FALSE
  /\ frame = FrameIdle
  /\ enable_store = -1

(* the state store_hotplug_enable leaves when 1 is written to a freshly    *)
(* initialised driver whose first decision work has run (and found the     *)
(* driver disabled): cpus_hotplugging(true), then atomic_set               *)
EnabledState(up, down, mask) ==
  /\ hotplug_tuners_ins = [hotplug_sampling_rate |-> DEF_SAMPLING_RATE,
                           accuratecpufreq |-> 0,
                           hotplug_enable |-> 1, cpu_up_rate |-> up,
                           cpu_down_rate |-> down, maxcoreslimit |-> NR_CPUS]
  /\ hotplug_param = [freq |-> hotplug_freq, load |-> hotplug_load,
                      rq |-> hotplug_rq]
  /\ sampling_store = SamplingIdle
  /\ cpu_online_mask = mask
  /\ od_hotplug_cpuinfo =
       [c \in Cpus |-> [online |-> mask[c], up_cpu |-> 1, up_by_cpu |-> -1]]
  /\ hotplugging_rate = 0
  /\ other_hotplugging = FALSE
  /\ rq_data = [nr_run_avg |-> 0, last_time |-> 0, total_time |-> 0,
                nr_run_wq |-> TRUE]
  /\ rq_work = TRUE
  /\ rq_frame = RqIdle
  /\ ktime = NSEC_PER_MSEC
  /\ alucard_hotplug_work = TRUE
  /\ timer_expires = jiffies + usecs_to_jiffies(DEF_SAMPLING_RATE)
  /\ alucard_hotplug_online_work = FALSE
  /\ alucard_hotplug_offline_work = FALSE
  /\ frame = FrameIdle
  /\ enable_store = -1

(* the cpus found online: cpu 0 always is *)
BootMasks == {m \in [Cpus -> BOOLEAN] : m[0]}

(***************************************************************************)
(* Spec: the life cycle.  The driver as initialised, writes to             *)
(* hotplug_enable, the decision work and the executor works.  Steps that   *)
(* commute with the locked part of the decision work are taken outside it: *)
(* the sampler runs where the decision work is about to read it.           *)
(***************************************************************************)
Init ==
  /\ \E m \in BootMasks : InitState(1, 1, m)
  /\ hist = HistInit(FALSE, FALSE)

Next ==
  \/ hotplug_work_enter
  \/ hotplug_work_lock
  \/ hotplug_work_cpu
  \/ hotplug_work_exit
  \/ cpu_online_work_fn
  \/ cpu_offline_work_fn
  \/ store_hotplug_enable_call
  \/ store_hotplug_enable_set
  \/ (frame.pc = "entered" /\ rq_work_fn)

Spec == Init /\ [][Next]_vars

(***************************************************************************)
(* SpecEngine: the decision engine of an enabled driver, with writes to    *)
(* maxcoreslimit between decision works and cpus plugged by others.        *)
(***************************************************************************)
InitEngine ==
  /\ \E m \in BootMasks : EnabledState(1, 1, m)
  /\ hist = HistInit(FALSE, FALSE)

NextEngine ==
  \/ hotplug_work_enter
  \/ hotplug_work_lock
  \/ hotplug_work_cpu
  \/ hotplug_work_exit
  \/ cpu_online_work_fn
  \/ cpu_offline_work_fn
  \/ (frame.pc = "none" /\ store_maxcoreslimit)
  \/ (frame.pc = "entered" /\ rq_work_fn)
  \/ ExternalHotplug

SpecEngine == InitEngine /\ [][NextEngine]_vars

(***************************************************************************)
(* SpecRate: the decision works of an enabled driver counted since enable, *)
(* for rates that are not touched after it.                                *)
(***************************************************************************)
RatePairs == {<<2, 3>>, <<3, 2>>, <<10, 20>>}

InitRate ==
  /\ \E r \in RatePairs : EnabledState(r[1], r[2], [c \in Cpus |-> TRUE])
  /\ hist = HistInit(FALSE, TRUE)

NextRate ==
  \/ hotplug_work_enter
  \/ hotplug_work_lock
  \/ hotplug_work_cpu
  \/ hotplug_work_exit
  \/ cpu_online_work_fn
  \/ cpu_offline_work_fn
  \/ (frame.pc = "entered" /\ rq_work_fn)

SpecRate == InitRate /\ [][NextRate]_vars

(***************************************************************************)
(* SpecRq: the sampler on its own, with the clock.                         *)
(***************************************************************************)
InitRq ==
  /\ InitState(10, 20, [c \in Cpus |-> TRUE])
  /\ hist = HistInit(TRUE, FALSE)

NextRq ==
  \/ start_rq_work_call
  \/ stop_rq_work_call
  \/ rq_work_fn
  \/ get_nr_run_avg_call
  \/ AdvanceTime

SpecRq == InitRq /\ [][NextRq]_vars

(***************************************************************************)
(* SpecConf: the files of the tunables written in any order, from the      *)
(* state module init leaves with cpus 0 and 1 online, the last write on    *)
(* record.                                                                 *)
(***************************************************************************)
InitConf ==
  /\ InitState(10, 20, [c \in Cpus |-> c <= 1])
  /\ hist = [HistInit(FALSE, FALSE) EXCEPT !.trace_call = TRUE]

NextConf ==
  \/ store_hotplug_sampling_rate
  \/ update_sampling_rate_lock
  \/ update_sampling_rate_cancel
  \/ update_sampling_rate_sched
  \/ store_hotplug_enable_call
  \/ store_hotplug_enable_set
  \/ store_cpu_up_rate
  \/ store_cpu_down_rate
  \/ store_maxcoreslimit
  \/ store_accuratecpufreq
  \/ store_hotplug_param

SpecConf == InitConf /\ [][NextConf]_vars

(***************************************************************************)
(* SpecEval: the decision engine of an enabled driver with the load and    *)
(* frequency of the cpu last evaluated on record, writes to maxcoreslimit  *)
(* between decision works, and no cpu plugged by others.                   *)
(***************************************************************************)
InitEval ==
  /\ \E m \in BootMasks : EnabledState(1, 1, m)
  /\ hist = [HistInit(FALSE, FALSE) EXCEPT !.trace_eval = TRUE]

NextEval ==
  \/ hotplug_work_enter
  \/ hotplug_work_lock
  \/ hotplug_work_cpu
  \/ hotplug_work_exit
  \/ cpu_online_work_fn
  \/ cpu_offline_work_fn
  \/ (frame.pc = "none" /\ store_maxcoreslimit)
  \/ (frame.pc = "entered" /\ rq_work_fn)

SpecEval == InitEval /\ [][NextEval]_vars

(***************************************************************************)
(* SpecExec: the decision engine of an enabled driver and its executor     *)
(* works, whose cpu_up and cpu_down calls can fail, with the failures on   *)
(* record; nothing else plugs a cpu and no tunable is written.             *)
(***************************************************************************)
InitExec ==
  /\ \E m \in BootMasks : EnabledState(1, 1, m)
  /\ hist = [HistInit(FALSE, FALSE) EXCEPT !.trace_exec = TRUE]

NextExec ==
  \/ hotplug_work_enter
  \/ hotplug_work_lock
  \/ hotplug_work_cpu
  \/ hotplug_work_exit
  \/ cpu_online_work_fn
  \/ cpu_offline_work_fn
  \/ (frame.pc = "entered" /\ rq_work_fn)

SpecExec == InitExec /\ [][NextExec]_vars

(***************************************************************************)
(* SpecSampler: writes to hotplug_enable and the decision work, with the   *)
(* sampler work running at any time and in two steps, from the state       *)
(* module init leaves with cpu 0 alone online and rates 1 and 2.  The      *)
(* executor works stay on their queue.                                     *)
(***************************************************************************)
InitSampler ==
  /\ InitState(1, 2, [c \in Cpus |-> c = 0])
  /\ hist = HistInit(FALSE, FALSE)

NextSampler ==
  \/ hotplug_work_enter
  \/ hotplug_work_lock
  \/ hotplug_work_cpu
  \/ hotplug_work_exit
  \/ store_hotplug_enable_call
  \/ store_hotplug_enable_set
  \/ rq_work_fn_enter
  \/ rq_work_fn_exit

SpecSampler == InitSampler /\ [][NextSampler]_vars

(***************************************************************************)
(* SpecCounter: the decision works of an enabled driver with cpu 0 alone   *)
(* online and the sampler left out, so that no cpu is ever marked, and     *)
(* writes to cpu_up_rate and cpu_down_rate at any time.                    *)
(***************************************************************************)
InitCounter ==
  /\ EnabledState(10, 20, [c \in Cpus |-> c = 0])
  /\ hist = HistInit(FALSE, FALSE)

NextCounter ==
  \/ hotplug_work_enter
  \/ hotplug_work_lock
  \/ hotplug_work_cpu
  \/ hotplug_work_exit
  \/ store_cpu_up_rate
  \/ store_cpu_down_rate

SpecCounter == InitCounter /\ [][NextCounter]_vars

(***************************************************************************)
(* SpecTimer: the decision work and its deadline on a clock that advances, *)
(* with writes to hotplug_sampling_rate and hotplug_enable, cpu 0 alone    *)
(* online and the sampler left out.                                        *)
(***************************************************************************)
InitTimer ==
  /\ InitState(1, 1, [c \in Cpus |-> c = 0])
  /\ hist = [HistInit(FALSE, FALSE) EXCEPT !.trace_rate = TRUE]

NextTimer ==
  \/ store_hotplug_sampling_rate
  \/ update_sampling_rate_lock
  \/ update_sampling_rate_cancel
  \/ update_sampling_rate_sched
  \/ store_hotplug_enable_call
  \/ store_hotplug_enable_set
  \/ hotplug_work_enter
  \/ hotplug_work_lock
  \/ hotplug_work_cpu
  \/ hotplug_work_exit
  \/ AdvanceTime

SpecTimer == InitTimer /\ [][NextTimer]_vars

(***************************************************************************)
(* Properties.                                                             *)
(***************************************************************************)

(* C1: cpu 0 is never taken offline by the controller: its recorded online *)
(* flag is never cleared, no decision work marks it offline, and neither   *)
(* cpus_hotplugging(false) nor the take-offline work calls cpu_down(0).    *)
C1_Cpu0NeverOfflined ==
  /\ od_hotplug_cpuinfo[0].online = TRUE
  /\ 0 \notin frame.down_marked
  /\ hist.down0 = FALSE

(* the write of 0 to hotplug_enable has taken every cpu but cpu 0 offline, *)
(* some of them recorded offline already                                   *)
C1_Witness ==
  /\ enable_store = 0
  /\ \E c \in Cpus \ {0} : ~od_hotplug_cpuinfo[c].online
  /\ \A c \in Cpus \ {0} : ~cpu_online_mask[c]
  /\ cpu_online_mask[0]

(* C2: when a decision work marks an offline cpu online, the cpus recorded *)
(* online, the new one included, are at most maxcoreslimit.                *)
C2_NeverBeyondMaxcores ==
  (frame.pc = "loop" /\ frame.up_marked # {}) =>
     Cardinality({c \in Cpus : od_hotplug_cpuinfo[c].online})
        <= frame.upmaxcoreslimit

(* C3: one decision work marks at most one cpu online and at most one cpu  *)
(* offline, whatever the loads, frequencies and run-queue average are.     *)
C3_AtMostOneUpOneDown ==
  /\ Cardinality(frame.up_marked) <= 1
  /\ Cardinality(frame.down_marked) <= 1

(* a decision work at the end of its loop that has marked one cpu online   *)
(* and another offline                                                     *)
C3_Witness ==
  /\ frame.pc = "loop"
  /\ frame.cpu = NR_CPUS
  /\ Cardinality(frame.up_marked) = 1
  /\ Cardinality(frame.down_marked) = 1

(* C4: a decision work that starts while a recorded online flag disagrees  *)
(* with the hardware makes no up and no down decision (no up_cpu cleared,  *)
(* no cpu marked, nothing handed to the executor works), and when it ends  *)
(* every recorded flag equals the hardware, every up_cpu is 1 and every    *)
(* up_by_cpu is -1.                                                        *)
C4_DriftTickDecidesNothing ==
  [][ /\ (frame'.pc = "loop" /\ frame'.drift_at_lock) =>
            /\ frame'.up_cpu_req = -1
            /\ frame'.up_marked = {}
            /\ frame'.down_marked = {}
      /\ (frame.pc = "loop" /\ frame.drift_at_lock /\ frame'.pc = "none") =>
            \A c \in Cpus :
               /\ od_hotplug_cpuinfo'[c].online = cpu_online_mask'[c]
               /\ od_hotplug_cpuinfo'[c].up_cpu = 1
               /\ od_hotplug_cpuinfo'[c].up_by_cpu = -1 ]_vars

(* C5: once the write of 0 to hotplug_enable has returned, and until the   *)
(* next write of 1, no decision work runs its loop and no executor work    *)
(* changes which cpus are online.                                          *)
C5_NothingAfterDisable ==
  [][ (hotplug_tuners_ins.hotplug_enable = 0 /\ enable_store = -1) =>
        /\ ~(frame.pc = "entered" /\ frame'.pc = "loop")
        /\ ~(/\ alucard_hotplug_online_work
             /\ ~alucard_hotplug_online_work'
             /\ cpu_online_mask' # cpu_online_mask)
        /\ ~(/\ alucard_hotplug_offline_work
             /\ ~alucard_hotplug_offline_work'
             /\ cpu_online_mask' # cpu_online_mask) ]_vars

(* C6: with the rates fixed since enable, the n-th decision work since     *)
(* enable evaluates up exactly when n is a multiple of cpu_up_rate and     *)
(* down exactly when n is a multiple of cpu_down_rate.                     *)
C6_EvaluatesOnMultiples ==
  frame.pc = "loop" =>
    /\ frame.check_up = (hist.tickno % frame.up_rate = 0)
    /\ frame.check_down = (hist.tickno % frame.down_rate = 0)

(* C7: every run of rq_work_fn (a step that moves last_time) leaves        *)
(* (instant*dt + old_avg*old_total) / (old_total + dt) as the average,     *)
(* where old_total is the accumulated time (0 after a zero average) and dt *)
(* the milliseconds since the last run; stated where old_total + dt > 0.   *)
C7_WeightedAverage ==
  [][ (rq_data'.last_time # rq_data.last_time /\ rq_data'.last_time # 0) =>
        LET last_time == IF rq_data.last_time = 0 THEN ktime
                                                  ELSE rq_data.last_time
            dt    == (ktime - last_time) \div NSEC_PER_MSEC
            total == IF rq_data.nr_run_avg = 0 THEN 0 ELSE rq_data.total_time
        IN (total + dt # 0) =>
              rq_data'.nr_run_avg =
                 (hist'.inst * dt + rq_data.nr_run_avg * total)
                    \div (total + dt) ]_vars

(* C8: get_nr_run_avg returns the average and leaves 0, and what it        *)
(* returns depends only on the samples since the read before: the average  *)
(* always equals that of a sampler whose accumulated time is thrown away   *)
(* at each read, and each read returned what that sampler held.            *)
C8_ResetOnRead ==
  /\ rq_data.nr_run_avg = hist.fresh.nr_run_avg
  /\ frame.rq_avg = hist.ret

(* a read has returned 300, the weighted average of samples that ended     *)
(* with 400, and left 0 with the accumulated time still in place           *)
C8_Witness ==
  /\ frame.rq_avg = 300
  /\ hist.inst = 400
  /\ rq_data.nr_run_avg = 0
  /\ rq_data.total_time > 0

(* C9: when the loop of a decision work that saw no drift ends with an up  *)
(* trigger t and some cpu was offline at its start, the lowest such cpu c  *)
(* has been marked online with up_by_cpu = t, and up_cpu of t is 0.        *)
C9_UpSelectsLowestOffline ==
  (/\ frame.pc = "loop"
   /\ frame.cpu = NR_CPUS
   /\ ~other_hotplugging
   /\ ~frame.drift_at_lock
   /\ frame.up_cpu_req >= 0) =>
     LET offline == ({c \in Cpus : ~od_hotplug_cpuinfo[c].online}
                       \cup frame.up_marked) \ frame.down_marked
     IN offline # {} =>
          LET c == CHOOSE x \in offline : \A y \in offline : x <= y
          IN /\ frame.up_marked = {c}
             /\ od_hotplug_cpuinfo[c].online
             /\ od_hotplug_cpuinfo[c].up_by_cpu = frame.up_cpu_req
             /\ od_hotplug_cpuinfo[frame.up_cpu_req].up_cpu = 0

(* C10 as stated: once the loop has seen cpu c, brought up by t, offline   *)
(* in its recorded flag and in hardware, up_cpu of t is 1 and up_by_cpu of *)
(* c is -1.                                                                *)
C10_RestoredAndCleared ==
  \A p \in frame.restored :
     /\ od_hotplug_cpuinfo[p[2]].up_cpu = 1
     /\ od_hotplug_cpuinfo[p[1]].up_by_cpu = -1

(* C10 as amended: up_cpu of t is 1, and up_by_cpu of c is -1 unless the   *)
(* same decision work has marked c online again, naming its new trigger.   *)
C10_RestoredUnlessMarkedAgain ==
  \A p \in frame.restored :
     /\ od_hotplug_cpuinfo[p[2]].up_cpu = 1
     /\ \/ od_hotplug_cpuinfo[p[1]].up_by_cpu = -1
        \/ p[1] \in frame.up_marked

(* the loop has ended after restoring a trigger whose cpu went offline *)
C10_Witness ==
  /\ frame.pc = "loop"
  /\ frame.cpu = NR_CPUS
  /\ frame.restored # {}
  /\ frame.up_marked = {}

(* C11 as stated: a decision work never marks offline a cpu whose index is *)
(* at or above maxcoreslimit.                                              *)
C11_AtOrAboveMaxNeverDown ==
  \A c \in frame.down_marked : c < frame.upmaxcoreslimit

(* C11 as amended: with maxcoreslimit below NR_CPUS a decision work never  *)
(* marks offline a cpu whose index is below maxcoreslimit; with            *)
(* maxcoreslimit equal to NR_CPUS it never marks cpu 0.                    *)
C11_BelowMaxNeverDown ==
  /\ frame.upmaxcoreslimit < NR_CPUS =>
        \A c \in frame.down_marked : c >= frame.upmaxcoreslimit
  /\ frame.upmaxcoreslimit = NR_CPUS => 0 \notin frame.down_marked

(* with maxcoreslimit 3 a decision work has marked cpu 3 offline *)
C11_Witness ==
  /\ frame.upmaxcoreslimit = 3
  /\ frame.down_marked = {3}

(* C12: a write to a tunable's file whose number, once clamped or          *)
(* normalised, is the tunable's current value changes nothing: not the     *)
(* tunables, the threshold tables, the per-cpu records, the counter of     *)
(* decision works, the sampler's accumulators, nor the pending decision    *)
(* work and its deadline.                                                  *)
C12_RewritingCurrentChangesNothing ==
  [][LET c == hist'.call
         norm == CASE c.file = "hotplug_sampling_rate" ->
                        IF c.input < 10000 THEN 10000 ELSE c.input
                   [] c.file \in {"hotplug_enable", "accuratecpufreq"} ->
                        IF c.input > 0 THEN 1 ELSE 0
                   [] c.file \in {"cpu_up_rate", "cpu_down_rate"} ->
                        IF c.input < 1 THEN 1
                        ELSE IF c.input > 40 THEN 40 ELSE c.input
                   [] c.file = "maxcoreslimit" ->
                        IF c.input < 1 THEN 1
                        ELSE IF c.input > NR_CPUS THEN NR_CPUS ELSE c.input
                   [] OTHER -> c.input
         cur == IF c.file = "hotplug_rq_2_1"
                  THEN hotplug_param.rq[1][UP_INDEX + 1]
                  ELSE hotplug_tuners_ins[c.file]
     IN (hist'.call # hist.call /\ norm = cur)
          => UNCHANGED <<ctlVars, rqVars>>]_vars

(* a write of 0 to hotplug_enable has returned early on a disabled driver  *)
(* with more cpus than cpu 0 online and a decision work pending            *)
C12_Witness ==
  /\ hist.call = [file |-> "hotplug_enable", input |-> 0]
  /\ hotplug_tuners_ins.hotplug_enable = 0
  /\ enable_store = -1
  /\ cpu_online_mask[1]
  /\ alucard_hotplug_work

(* C13: whatever is written, hotplug_sampling_rate is at least 10000,      *)
(* cpu_up_rate and cpu_down_rate are within 1..40, maxcoreslimit is within *)
(* 1..NR_CPUS and hotplug_enable is 0 or 1; the tunable last written holds *)
(* the number written when that is in range and the nearest bound when it  *)
(* is not.                                                                 *)
C13_TunablesInRange ==
  /\ hotplug_tuners_ins.hotplug_sampling_rate >= 10000
  /\ hotplug_tuners_ins.cpu_up_rate \in 1..40
  /\ hotplug_tuners_ins.cpu_down_rate \in 1..40
  /\ hotplug_tuners_ins.maxcoreslimit \in 1..NR_CPUS
  /\ hotplug_tuners_ins.hotplug_enable \in {0, 1}
  /\ LET c == hist.call
     IN /\ c.file = "hotplug_sampling_rate" =>
             hotplug_tuners_ins.hotplug_sampling_rate =
               (IF c.input < 10000 THEN 10000 ELSE c.input)
        /\ c.file \in {"cpu_up_rate", "cpu_down_rate"} =>
             hotplug_tuners_ins[c.file] =
               (IF c.input < 1 THEN 1
                ELSE IF c.input > 40 THEN 40 ELSE c.input)
        /\ c.file = "maxcoreslimit" =>
             hotplug_tuners_ins.maxcoreslimit =
               (IF c.input < 1 THEN 1
                ELSE IF c.input > NR_CPUS THEN NR_CPUS ELSE c.input)

(* 41 was written to cpu_up_rate after 0 was written to cpu_down_rate *)
C13_Witness ==
  /\ hist.call = [file |-> "cpu_up_rate", input |-> 41]
  /\ hotplug_tuners_ins.cpu_up_rate = 40
  /\ hotplug_tuners_ins.cpu_down_rate = 1
  /\ hotplug_tuners_ins.maxcoreslimit = 4

(* C14: update_sampling_rate, finding a decision work pending: when the    *)
(* new period from now ends before the work's deadline, the work is        *)
(* cancelled and then queued with a deadline one new period from now; when *)
(* the new period is larger than the one it replaced, the work and its     *)
(* deadline are left as they are; either way a decision work is pending    *)
(* when update_sampling_rate returns.                                      *)
C14_SamplingRateChange ==
  [][LET new_delay == usecs_to_jiffies(sampling_store.new_rate)
         at_lock == sampling_store.pc = "lock" /\ sampling_store'.pc # "lock"
                      /\ alucard_hotplug_work
     IN /\ (at_lock /\ jiffies + new_delay < timer_expires)
             => sampling_store'.pc = "cancel"
        /\ (sampling_store.pc = "cancel" /\ sampling_store'.pc # "cancel")
             => (~alucard_hotplug_work' /\ sampling_store'.pc = "sched")
        /\ (sampling_store.pc = "sched" /\ sampling_store'.pc # "sched"
              /\ ~alucard_hotplug_work)
             => (timer_expires' = jiffies' + new_delay
                   /\ sampling_store'.pc = "none")
        /\ (at_lock /\ sampling_store.new_rate > hist.old_rate)
             => (sampling_store'.pc = "none"
                   /\ UNCHANGED <<alucard_hotplug_work, timer_expires>>)
        /\ ((at_lock \/ sampling_store.pc = "sched")
              /\ sampling_store'.pc = "none")
             => alucard_hotplug_work'
    ]_vars

(* both cases have happened: a period of 30000 us replaced 10000 us and    *)
(* left the deadline at 1 jiffy, after 10000 us had replaced 60000 us and  *)
(* moved the deadline from 6 jiffies to 1                                  *)
C14_Witness ==
  /\ sampling_store = SamplingIdle
  /\ hist.old_rate = 10000
  /\ hotplug_tuners_ins.hotplug_sampling_rate = 30000
  /\ alucard_hotplug_work
  /\ timer_expires = 1
  /\ jiffies = 0

(* C19: once a write of 1 to hotplug_enable has returned and until the     *)
(* driver is disabled, a decision work is queued or running, except while  *)
(* update_sampling_rate has cancelled it and not yet queued it again.      *)
C19_TickPendingWhileEnabled ==
  (/\ hotplug_tuners_ins.hotplug_enable = 1
   /\ enable_store = -1
   /\ sampling_store.pc # "sched")
    => (alucard_hotplug_work \/ frame.pc # "none")

(* C16: in an iteration that evaluates a cpu, the decisions are those of   *)
(* the thresholds in the row of the number of cpus online: an eligible cpu *)
(* becomes the up trigger iff its load and frequency are at least, and the *)
(* run-queue average above, the up thresholds of that row; a cpu marked    *)
(* offline meets the down thresholds of that row, and an eligible cpu not  *)
(* marked does not meet its frequency and run-queue thresholds.            *)
C16_ThresholdRowIsOnlineCount ==
  [][(frame.pc = "loop" /\ frame'.pc = "loop" /\ frame'.cpu = frame.cpu + 1
        /\ ~other_hotplugging')
      => LET cpu == frame.cpu
             row == NumOnlineCpus(cpu_online_mask) - 1
             s == [info |-> od_hotplug_cpuinfo, f |-> frame]
             online == cpu_online_mask[cpu]
             cur_load == frame'.cur_load
             cur_freq == frame'.cur_freq
             rq_avg == frame.rq_avg
             trigger == frame.up_cpu_req = -1 /\ frame'.up_cpu_req = cpu
             marked == cpu \in frame'.down_marked \ frame.down_marked
         IN /\ UpEligible(s, cpu, online)
                 => (trigger <=>
                       /\ cur_load >= hotplug_param.load[row][UP_INDEX + 1]
                       /\ cur_freq >= hotplug_param.freq[row][UP_INDEX + 1]
                       /\ rq_avg > hotplug_param.rq[row][UP_INDEX + 1])
            /\ marked
                 => \/ cur_load < hotplug_param.load[row][DOWN_INDEX + 1]
                    \/ /\ cur_freq <= hotplug_param.freq[row][DOWN_INDEX + 1]
                       /\ rq_avg <= hotplug_param.rq[row][DOWN_INDEX + 1]
            /\ (DownEligible(s, cpu, online, cur_load) /\ ~marked)
                 => ~(/\ cur_freq <= hotplug_param.freq[row][DOWN_INDEX + 1]
                      /\ rq_avg <= hotplug_param.rq[row][DOWN_INDEX + 1])
    ]_vars

(* C17: in an iteration that evaluates a cpu eligible to go offline, the   *)
(* cpu is marked offline iff more than one cpu is online and its load is   *)
(* below the down load threshold, or its frequency is at most the down     *)
(* frequency threshold and the run-queue average at most the down          *)
(* run-queue threshold (the thresholds of the row the code reads).         *)
C17_DownQualification ==
  [][(frame.pc = "loop" /\ frame'.pc = "loop" /\ frame'.cpu = frame.cpu + 1
        /\ ~other_hotplugging')
      => LET cpu == frame.cpu
             s == [info |-> od_hotplug_cpuinfo, f |-> frame]
             cur_load == frame'.cur_load
             cur_freq == frame'.cur_freq
             marked == cpu \in frame'.down_marked \ frame.down_marked
         IN DownEligible(s, cpu, cpu_online_mask[cpu], cur_load)
              => (marked <=>
                    \/ /\ NumOnlineCpus(cpu_online_mask) > 1
                       /\ cur_load < Param(hotplug_param.load, cpu, DOWN_INDEX)
                    \/ /\ cur_freq <= Param(hotplug_param.freq, cpu, DOWN_INDEX)
                       /\ frame.rq_avg
                            <= Param(hotplug_param.rq, cpu, DOWN_INDEX))
    ]_vars

(* C18: a cpu a decision work marks offline has an index above the floor,  *)
(* 0 when the maxcoreslimit the work read is NR_CPUS and that limit less 1 *)
(* otherwise, is online and has a load of 0 or more in that iteration; no  *)
(* cpu at or below the floor is among the cpus marked.                     *)
C18_DownFloor ==
  [][(frame'.pc = "loop" /\ frame'.down_marked # {})
      => LET F == IF frame'.upmaxcoreslimit = NR_CPUS
                    THEN 0 ELSE frame'.upmaxcoreslimit - 1
         IN /\ \A c \in frame'.down_marked : c > F
            /\ \A c \in frame'.down_marked \ frame.down_marked :
                 /\ c = frame.cpu
                 /\ cpu_online_mask[c]
                 /\ frame'.cur_load >= 0
    ]_vars

(* cpu 3, then just above the floor of a limit of 3, has been marked       *)
(* offline with a load of 20                                               *)
C18_Witness ==
  /\ frame.pc = "loop"
  /\ frame.cpu = NR_CPUS
  /\ frame.upmaxcoreslimit = 3
  /\ frame.down_marked = {3}
  /\ frame.cur_load = 20

(* C15: a run of an executor work, whether its cpu_up or cpu_down calls    *)
(* fail or not, leaves every recorded online flag as it was; an iteration  *)
(* of a decision work on a cpu whose recorded flag differs from the        *)
(* hardware sets other_hotplugging, which stays set to the end of the      *)
(* loop; a decision work that started after a failed call ends its loop    *)
(* with other_hotplugging set; and a decision work that ends its loop with *)
(* other_hotplugging set copies every recorded online flag from the        *)
(* hardware.                                                               *)
C15_FailureReconciled ==
  [][/\ (alucard_hotplug_online_work' # alucard_hotplug_online_work
           \/ alucard_hotplug_offline_work' # alucard_hotplug_offline_work
           \/ cpu_online_mask' # cpu_online_mask)
          /\ frame' = frame
          => \A c \in Cpus :
               od_hotplug_cpuinfo'[c].online = od_hotplug_cpuinfo[c].online
     /\ (frame.pc = "loop" /\ frame'.pc = "loop"
           /\ frame'.cpu = frame.cpu + 1
           /\ (other_hotplugging
                 \/ od_hotplug_cpuinfo[frame.cpu].online
                      # cpu_online_mask[frame.cpu]))
          => other_hotplugging'
     /\ (frame.pc = "loop" /\ frame'.pc = "none")
          => /\ frame.failed_at_lock => other_hotplugging
             /\ other_hotplugging
                  => \A c \in Cpus :
                       od_hotplug_cpuinfo'[c].online = cpu_online_mask'[c]
    ]_vars

(* C20: with no call failed, a cpu a decision work has marked online and   *)
(* handed to the take-online work stays marked until that work runs, and a *)
(* cpu marked offline and handed to the take-offline work stays marked     *)
(* until that work runs, so that the work calls cpu_up or cpu_down for it. *)
C20_RequestKeptUntilExecuted ==
  [][~hist.failed =>
       /\ alucard_hotplug_online_work =>
            \A c \in OnlineWanted(od_hotplug_cpuinfo, cpu_online_mask) :
              \/ c \in OnlineWanted(od_hotplug_cpuinfo', cpu_online_mask')
              \/ cpu_online_mask' # cpu_online_mask
              \/ hist'.failed
       /\ alucard_hotplug_offline_work =>
            \A c \in OfflineWanted(od_hotplug_cpuinfo, cpu_online_mask) :
              \/ c \in OfflineWanted(od_hotplug_cpuinfo', cpu_online_mask')
              \/ cpu_online_mask' # cpu_online_mask
              \/ hist'.failed
    ]_vars

(* C21: a step taken with timer_mutex held, by the loop of a decision work *)
(* or by cpus_hotplugging called from a write to hotplug_enable, plugs no  *)
(* cpu in or out: it leaves cpu_online_mask as it is.                      *)
C21_NoPlatformCallUnderTimerMutex ==
  [][(\/ frame.pc = "loop" /\ frame' # frame
      \/ enable_store = -1 /\ enable_store' # -1)
       => cpu_online_mask' = cpu_online_mask]_vars

(* C22: the executor works run only while no decision work is in its       *)
(* per-cpu loop, which holds timer_mutex: a step that takes a queued       *)
(* executor work off its queue is not taken then.                          *)
C22_ExecutorsOutsideLoop ==
  [][(\/ alucard_hotplug_online_work /\ ~alucard_hotplug_online_work'
      \/ alucard_hotplug_offline_work /\ ~alucard_hotplug_offline_work')
       => frame.pc # "loop"]_vars

(* C23: while a run of rq_work_fn holds rq_data->lock, no step of anything *)
(* else writes nr_run_avg, last_time or total_time.                        *)
C23_SamplerFieldsUnderLock ==
  [][(rq_frame.pc = "locked" /\ rq_frame' = rq_frame)
       => /\ rq_data'.nr_run_avg = rq_data.nr_run_avg
          /\ rq_data'.last_time = rq_data.last_time
          /\ rq_data'.total_time = rq_data.total_time]_vars

(* C24: once a write of 0 to hotplug_enable has returned and until the     *)
(* next write of 1, and before the first, the sampler work is neither      *)
(* queued nor running.                                                     *)
C24_NoSamplerWhileDisabled ==
  (hotplug_tuners_ins.hotplug_enable = 0 /\ enable_store = -1)
    => (~rq_work /\ rq_frame.pc = "none")

C27_TickCounter ==
  [][IF frame.pc = "entered" /\ frame'.pc = "loop"
       THEN hotplugging_rate' = hotplugging_rate + 1
       ELSE IF frame.pc = "loop" /\ frame'.pc = "none"
         THEN LET m == IF frame.up_rate >= frame.down_rate
                         THEN frame.up_rate ELSE frame.down_rate
              IN /\ hotplugging_rate' \in 0 .. (m - 1)
                 /\ hotplugging_rate' =
                      (IF hotplugging_rate >= m THEN 0 ELSE hotplugging_rate)
         ELSE hotplugging_rate' = hotplugging_rate]_vars

(* a decision work that read rates 2 and 2 is about to end with the        *)
(* counter at 6, the rates having been lowered since the work before it    *)
C27_Witness ==
  /\ frame.pc = "loop"
  /\ frame.cpu = NR_CPUS
  /\ frame.up_rate = 2
  /\ frame.down_rate = 2
  /\ hotplugging_rate = 6

(* C25: between decision works, a cpu whose up_cpu is 0 is the up_by_cpu   *)
(* of some cpu: a cpu is made ineligible only by a decision work that      *)
(* selected a cpu to be brought online on its behalf.                      *)
C25_IneligibleOnlyAsTrigger ==
  frame.pc = "none" =>
    \A t \in Cpus :
      od_hotplug_cpuinfo[t].up_cpu = 0 =>
        \E c \in Cpus : od_hotplug_cpuinfo[c].up_by_cpu = t

(* C28: where a decision work of the enabled driver or a run of the        *)
(* offline work ends with exactly one cpu online, that cpu has up_cpu = 1. *)
C28_LoneCpuRearmed ==
  [][((\/ frame.pc = "loop" /\ frame'.pc = "none"
       \/ alucard_hotplug_offline_work /\ ~alucard_hotplug_offline_work')
      /\ NumOnlineCpus(cpu_online_mask') = 1)
       => \A c \in Cpus :
            cpu_online_mask'[c] => od_hotplug_cpuinfo'[c].up_cpu = 1]_vars

(* between decision works cpu 0 is alone online and eligible, although it  *)
(* is still on record as the trigger of a cpu marked to come online        *)
C28_Witness ==
  /\ frame.pc = "none"
  /\ NumOnlineCpus(cpu_online_mask) = 1
  /\ cpu_online_mask[0]
  /\ od_hotplug_cpuinfo[0].up_cpu = 1
  /\ \E c \in Cpus : od_hotplug_cpuinfo[c].up_by_cpu = 0

(* C29: in every state the up_by_cpu of a cpu c is -1 or the index of a    *)
(* cpu below c: never c itself, never a cpu above c.                       *)
C29_BackReference ==
  \A c \in Cpus :
    \/ od_hotplug_cpuinfo[c].up_by_cpu = -1
    \/ od_hotplug_cpuinfo[c].up_by_cpu \in 0 .. (c - 1)

(* cpu 3 is on record as brought up by cpu 2, and cpu 1 is offline *)
C29_Witness ==
  /\ od_hotplug_cpuinfo[3].up_by_cpu = 2
  /\ ~cpu_online_mask[1]

====
